---- MODULE Spec2Model ----
(***************************************************************************)
(* A model of the SPL recursive-descent parser (Parser in parser.ts and    *)
(* its compiled counterpart).  The parser owns one lookahead token and     *)
(* pulls tokens from a lexer; every _consumeX method is an operator that   *)
(* takes the parser object and yields a completion record: a normal        *)
(* return with a value, or a throw with the SPLError message.              *)
(***************************************************************************)
EXTENDS Integers, Sequences, FiniteSets, TLC

VARIABLES build, entry, parser, pc,
          plotClause, selectColumns, whereCondition, groupKey, limitAndOffset,
          result, thrown

vars == <<build, entry, parser, pc, plotClause, selectColumns, whereCondition,
          groupKey, limitAndOffset, result, thrown>>

(***************************************************************************)
(* Bounds of the explored inputs.                                          *)
(***************************************************************************)
MaxColumns == 3
MaxLeaves == 3
MaxDepth == 2
MaxLen == 3

(***************************************************************************)
(* JavaScript values.  undefined is the empty tuple and a defined value v  *)
(* is <<v>>, so that an optional field always compares with itself.        *)
(***************************************************************************)
Undefined == <<>>
Def(v) == <<v>>

(***************************************************************************)
(* The two Parser sources of the repository: the TypeScript source and the *)
(* compiled module shipped beside the type declarations.                   *)
(***************************************************************************)
Builds == {"src", "lib"}

(***************************************************************************)
(* Tokens: { type, value }.                                                *)
(***************************************************************************)
TokenType == {"KEYWORD", "IDENTIFIER", "PLOT_FUNCTION", "LPAREN", "RPAREN", "COMMA",
              "STRING", "NUMBER", "NULL", "COMPARISON_OPERATOR", "LOGICAL_OPERATOR",
              "AGGREGATION_FUNCTION", "EOF"}
Token(t, v) == [type |-> t, value |-> v]

KW(v) == Token("KEYWORD", v)
ID(v) == Token("IDENTIFIER", v)
PF(v) == Token("PLOT_FUNCTION", v)
AF(v) == Token("AGGREGATION_FUNCTION", v)
STR(v) == Token("STRING", v)
NUM(v) == Token("NUMBER", v)
CMP(v) == Token("COMPARISON_OPERATOR", v)
LOP(v) == Token("LOGICAL_OPERATOR", v)
LP == Token("LPAREN", "(")
RP == Token("RPAREN", ")")
CM == Token("COMMA", ",")
NUL == Token("NULL", "NULL")
EOFToken == Token("EOF", "")

(***************************************************************************)
(* Number(text): the numeric value of a NUMBER token's text.  Several      *)
(* texts denote the same number.                                           *)
(***************************************************************************)
Number(text) ==
    CASE text = "0" -> 0
      [] text = "1" -> 1
      [] text = "01" -> 1
      [] text = "5" -> 5
      [] text = "05" -> 5
      [] text = "10" -> 10
      [] OTHER -> -1

(***************************************************************************)
(* Lexer: nextToken() yields the tokens of the input in order and the      *)
(* end-of-input token forever after; currentPosition is the scan position. *)
(***************************************************************************)
Lexer(input) == [input |-> input, currentPosition |-> 0]

nextToken(lexer) ==
    IF lexer.currentPosition < Len(lexer.input)
    THEN [token |-> lexer.input[lexer.currentPosition + 1],
          lexer |-> [lexer EXCEPT !.currentPosition = @ + 1]]
    ELSE [token |-> EOFToken, lexer |-> lexer]

(***************************************************************************)
(* The Parser object: its lexer and its lookahead token.  `passed` is a    *)
(* history of the tokens the lookahead has moved past, each with the       *)
(* method that moved it.                                                   *)
(***************************************************************************)
Parser(lexer) ==
    LET n == nextToken(lexer)
    IN  [_lexer |-> n.lexer, _currentToken |-> n.token, passed |-> <<>>]

Advance(p, site) ==
    LET n == nextToken(p._lexer)
    IN  [_lexer |-> n.lexer, _currentToken |-> n.token,
         passed |-> Append(p.passed, [token |-> p._currentToken, site |-> site])]

(***************************************************************************)
(* Completion records and SPLError messages.  A message is its template    *)
(* with the values interpolated into it.                                   *)
(***************************************************************************)
Return(p, v) == [ok |-> TRUE, p |-> p, val |-> v, err |-> Undefined]
Throw(p, e) == [ok |-> FALSE, p |-> p, val |-> Undefined, err |-> Def(e)]

SPLError(template, token, value, position) ==
    [template |-> template, token |-> token, value |-> value, position |-> position]

\* The mismatch message without the scan position.
UnexpectedTokenErrorWithoutPosition(p) ==
    SPLError("Unexpected token ${JSON.stringify(token)} at position ${position}",
             Def(p._currentToken), Undefined, Undefined)

UnexpectedTokenError(p) ==
    SPLError("Unexpected token ${JSON.stringify(token)} at position ${position}",
             Def(p._currentToken), Undefined, Def(p._lexer.currentPosition))

InvalidPlotTypeError(plotFunction) ==
    SPLError("Invalid plot type ${plotFunction}", Undefined, Def(plotFunction), Undefined)

InvalidComparisonOperatorError(comparisonOperator) ==
    SPLError("Invalid comparison operator ${comparisonOperator}",
             Undefined, Def(comparisonOperator), Undefined)

EqualComparisonError ==
    SPLError("Equal comparison allowed only for string, number, and null",
             Undefined, Undefined, Undefined)

(***************************************************************************)
(* _consumeToken(tokenType, value?): value "" stands for an omitted value  *)
(* (the code tests !value).                                                *)
(***************************************************************************)
_consumeToken(p, tokenType, value) ==
    LET token == p._currentToken
    IN  IF token.type = tokenType /\ (value = "" \/ token.value = value)
        THEN Return(Advance(p, "_consumeToken"), token)
        ELSE Throw(p, UnexpectedTokenError(p))

(***************************************************************************)
(* Sequencing: Then(r, K) runs the continuation K on the completion r of   *)
(* the statement before it when r returned normally, and propagates the    *)
(* throw otherwise (no method of the parser catches).                      *)
(***************************************************************************)
Then(r, K(_)) == CHOOSE c \in {IF v.ok THEN K(v) ELSE v : v \in {r}} : TRUE

(***************************************************************************)
(* _consumeColumn, in the TypeScript source and in the compiled module.    *)
(* ConsumeColumnCall is the aggregation-or-identifier part and             *)
(* ConsumeAlias the AS part, which the two share.                          *)
(***************************************************************************)
ConsumeColumnCall(p) ==
    IF p._currentToken.type = "AGGREGATION_FUNCTION"
    THEN Then(_consumeToken(p, "AGGREGATION_FUNCTION", ""), LAMBDA f :
         Then(_consumeToken(f.p, "LPAREN", ""), LAMBDA l :
         Then(IF f.val.value # "COUNT"
              THEN Then(_consumeToken(l.p, "IDENTIFIER", ""),
                        LAMBDA i : Return(i.p, Def(i.val.value)))
              ELSE Return(l.p, Undefined), LAMBDA column :
         Then(_consumeToken(column.p, "RPAREN", ""), LAMBDA r :
         Return(r.p, [column |-> column.val,
                      aggregationFunction |-> Def(f.val.value)])))))
    ELSE Then(_consumeToken(p, "IDENTIFIER", ""), LAMBDA i :
         Return(i.p, [column |-> Def(i.val.value),
                      aggregationFunction |-> Undefined]))

ConsumeAlias(p) ==
    IF p._currentToken.value = "AS"
    THEN Then(_consumeToken(p, "KEYWORD", ""), LAMBDA k :
         Then(_consumeToken(k.p, "IDENTIFIER", ""), LAMBDA i :
         Return(i.p, Def(i.val.value))))
    ELSE Return(p, Undefined)

_consumeColumnSrc(p) ==
    Then(ConsumeColumnCall(p), LAMBDA c :
    Then(ConsumeAlias(c.p), LAMBDA a :
    Return(a.p, [column |-> c.val.column,
                 displayName |-> a.val,
                 aggregationFunction |-> c.val.aggregationFunction])))

SynthesizedIdentifier(column, aggregationFunction) ==
    IF aggregationFunction # Undefined
    THEN Def(aggregationFunction[1] \o "("
             \o (IF column # Undefined THEN column[1] ELSE "") \o ")")
    ELSE column

_consumeColumnLib(p) ==
    Then(ConsumeColumnCall(p), LAMBDA c :
    Then(ConsumeAlias(c.p), LAMBDA a :
    Return(a.p, [identifier |-> IF a.val = Undefined \/ a.val = Def("")
                                THEN SynthesizedIdentifier(c.val.column,
                                         c.val.aggregationFunction)
                                ELSE a.val,
                 column |-> c.val.column,
                 aggregationFunction |-> c.val.aggregationFunction])))

_consumeColumn(b, p) ==
    IF b = "src" THEN _consumeColumnSrc(p) ELSE _consumeColumnLib(p)

(***************************************************************************)
(* _consumeSelectClause: the compiled module first consumes the SELECT     *)
(* keyword, the TypeScript source does not.  SelectLoop is the do-while    *)
(* loop, one iteration per unfolding.                                      *)
(***************************************************************************)
RECURSIVE SelectLoop(_, _, _)

\* Variant whose loop continues while the lookahead IS an identifier.
SelectLoopWhileIdentifier(b, p, columns) ==
    Then(_consumeColumn(b, p), LAMBDA c :
    Then(_consumeToken(c.p, "COMMA", ""), LAMBDA m :
    Then(Return(m.p, Append(columns, c.val)), LAMBDA pushed :
    IF m.p._currentToken.type = "IDENTIFIER"
    THEN SelectLoop(b, pushed.p, pushed.val)
    ELSE pushed)))

SelectLoop(b, p, columns) ==
    Then(_consumeColumn(b, p), LAMBDA c :
    Then(_consumeToken(c.p, "COMMA", ""), LAMBDA m :
    Then(Return(m.p, Append(columns, c.val)), LAMBDA pushed :
    IF m.p._currentToken.type # "IDENTIFIER"
    THEN SelectLoop(b, pushed.p, pushed.val)
    ELSE pushed)))

_consumeSelectClause(b, p) ==
    IF b = "src" THEN SelectLoop(b, p, <<>>)
    ELSE Then(_consumeToken(p, "KEYWORD", "SELECT"), LAMBDA k :
         SelectLoop(b, k.p, <<>>))

(***************************************************************************)
(* _consumePlotArgs and _consumePlotClauseOptional.  In the TypeScript     *)
(* source each argument is a column (_consumeColumn); in the compiled      *)
(* module each argument is one IDENTIFIER token.                           *)
(***************************************************************************)
PlotArgSrc(p) == _consumeColumn("src", p)

PlotArgLib(p) ==
    Then(_consumeToken(p, "IDENTIFIER", ""), LAMBDA t : Return(t.p, t.val.value))

PlotArg(b, p) == IF b = "src" THEN PlotArgSrc(p) ELSE PlotArgLib(p)

PlotCall(b, plotFunction, first, second) ==
    IF plotFunction = "BAR"
    THEN IF b = "src"
         THEN [plotFunction |-> plotFunction,
               categoriesColumn |-> first, valuesColumn |-> second]
         ELSE [plotFunction |-> plotFunction,
               categoriesIdentifier |-> first, valuesIdentifier |-> second]
    ELSE IF b = "src"
         THEN [plotFunction |-> plotFunction, xColumn |-> first, yColumn |-> second]
         ELSE [plotFunction |-> plotFunction,
               xIdentifier |-> first, yIdentifier |-> second]

_consumePlotArgs(b, p, plotFunction) ==
    IF plotFunction \in {"BAR", "LINE", "SCATTER"}
    THEN Then(PlotArg(b, p), LAMBDA first :
         Then(_consumeToken(first.p, "COMMA", ""), LAMBDA m :
         Then(PlotArg(b, m.p), LAMBDA second :
         Return(second.p, PlotCall(b, plotFunction, first.val, second.val)))))
    ELSE Throw(p, InvalidPlotTypeError(plotFunction))

_consumePlotClauseOptional(b, p) ==
    IF p._currentToken.value # "PLOT" THEN Return(p, Undefined)
    ELSE Then(_consumeToken(p, "KEYWORD", "PLOT"), LAMBDA k :
         Then(_consumeToken(k.p, "PLOT_FUNCTION", ""), LAMBDA f :
         Then(_consumeToken(f.p, "LPAREN", ""), LAMBDA l :
         Then(_consumePlotArgs(b, l.p, f.val.value), LAMBDA a :
         Then(_consumeToken(a.p, "RPAREN", ""), LAMBDA r :
         Return(r.p, Def(a.val)))))))

(***************************************************************************)
(* Comparison values: a string, a number or null.                          *)
(***************************************************************************)
StringValue(s) == [type |-> "string", string |-> s, number |-> 0]
NumberValue(n) == [type |-> "number", string |-> "", number |-> n]
NullValue == [type |-> "null", string |-> "", number |-> 0]

\* _consumeComparisonValue whose default case returns the token's text.
ComparisonValueAcceptsAnyToken(p) ==
    Then(Return(Advance(p, "_consumeComparisonValue"), p._currentToken), LAMBDA t :
    CASE t.val.type = "NUMBER" -> Return(t.p, NumberValue(Number(t.val.value)))
      [] t.val.type = "NULL" -> Return(t.p, NullValue)
      [] OTHER -> Return(t.p, StringValue(t.val.value)))

_consumeComparisonValue(p) ==
    Then(Return(Advance(p, "_consumeComparisonValue"), p._currentToken), LAMBDA t :
    CASE t.val.type = "STRING" -> Return(t.p, StringValue(t.val.value))
      [] t.val.type = "NUMBER" -> Return(t.p, NumberValue(Number(t.val.value)))
      [] t.val.type = "NULL" -> Return(t.p, NullValue)
      [] OTHER -> Throw(t.p, EqualComparisonError))

KeyAndValue(key, value) == [key |-> key, value |-> value]

ConsumeNumber(p) ==
    Then(_consumeToken(p, "NUMBER", ""), LAMBDA n :
    Return(n.p, NumberValue(Number(n.val.value))))

_consumeComparison(p) ==
    Then(_consumeToken(p, "IDENTIFIER", ""), LAMBDA k :
    Then(_consumeToken(k.p, "COMPARISON_OPERATOR", ""), LAMBDA o :
    CASE o.val.value = ">" ->
           Then(ConsumeNumber(o.p), LAMBDA v :
           Return(v.p, [gt |-> KeyAndValue(k.val.value, v.val)]))
      [] o.val.value = ">=" ->
           Then(ConsumeNumber(o.p), LAMBDA v :
           Return(v.p, [gte |-> KeyAndValue(k.val.value, v.val)]))
      [] o.val.value = "<" ->
           Then(ConsumeNumber(o.p), LAMBDA v :
           Return(v.p, [lt |-> KeyAndValue(k.val.value, v.val)]))
      [] o.val.value = "<=" ->
           Then(ConsumeNumber(o.p), LAMBDA v :
           Return(v.p, [lte |-> KeyAndValue(k.val.value, v.val)]))
      [] o.val.value = "=" ->
           Then(_consumeComparisonValue(o.p), LAMBDA v :
           Return(v.p, [eq |-> KeyAndValue(k.val.value, v.val)]))
      [] o.val.value = "!=" ->
           Then(_consumeComparisonValue(o.p), LAMBDA v :
           Return(v.p, [neq |-> KeyAndValue(k.val.value, v.val)]))
      [] OTHER -> Throw(o.p, InvalidComparisonOperatorError(o.val.value))))

(***************************************************************************)
(* _consumeCondition and _consumeConditionGroup.  AndLoop is the inner     *)
(* while loop over AND, FilterLoop one iteration of the outer while(true); *)
(* Collapse is the length-1 test that ends each.                           *)
(***************************************************************************)
\* Collapse without the length test: every group is wrapped.
CollapseAlwaysWraps(kind, conditions) ==
    IF kind = "and" THEN [and |-> conditions] ELSE [or |-> conditions]

Collapse(kind, conditions) ==
    IF Len(conditions) = 1 THEN conditions[1]
    ELSE IF kind = "and" THEN [and |-> conditions] ELSE [or |-> conditions]

RECURSIVE _consumeCondition(_)
RECURSIVE _consumeConditionGroup(_)
RECURSIVE AndLoop(_)
RECURSIVE FilterLoop(_)

\* AndLoop with unshift in place of push.
AndLoopUnshift(inner) ==
    IF inner.p._currentToken.value = "AND"
    THEN Then(_consumeToken(inner.p, "LOGICAL_OPERATOR", ""), LAMBDA t :
         Then(_consumeConditionGroup(t.p), LAMBDA g :
         Then(Return(g.p, <<g.val>> \o inner.val), LAMBDA pushed :
         AndLoop(pushed))))
    ELSE inner

\* `inner` is the completion holding the parser and innerConditions so far.
AndLoop(inner) ==
    IF inner.p._currentToken.value = "AND"
    THEN Then(_consumeToken(inner.p, "LOGICAL_OPERATOR", ""), LAMBDA t :
         Then(_consumeConditionGroup(t.p), LAMBDA g :
         Then(Return(g.p, Append(inner.val, g.val)), LAMBDA pushed :
         AndLoop(pushed))))
    ELSE inner

\* `outer` is the completion holding the parser and filters so far.
FilterLoop(outer) ==
    Then(_consumeConditionGroup(outer.p), LAMBDA g :
    Then(AndLoop(Return(g.p, <<g.val>>)), LAMBDA a :
    Then(Return(a.p, Append(outer.val, Collapse("and", a.val))), LAMBDA pushed :
    IF pushed.p._currentToken.value # "OR"
    THEN pushed
    ELSE Then(Return(Advance(pushed.p, "_consumeCondition"), pushed.val),
              LAMBDA next : FilterLoop(next)))))

_consumeCondition(p) ==
    Then(FilterLoop(Return(p, <<>>)), LAMBDA f :
    Return(f.p, Collapse("or", f.val)))

_consumeConditionGroup(p) ==
    IF p._currentToken.type = "IDENTIFIER" THEN _consumeComparison(p)
    ELSE Then(_consumeToken(p, "LPAREN", ""), LAMBDA l :
         Then(_consumeCondition(l.p), LAMBDA c :
         Then(_consumeToken(c.p, "RPAREN", ""), LAMBDA r :
         Return(r.p, c.val))))

_consumeWhereClauseOptional(p) ==
    IF p._currentToken.value # "WHERE" THEN Return(p, Undefined)
    ELSE Then(_consumeToken(p, "KEYWORD", ""), LAMBDA k :
         Then(_consumeCondition(k.p), LAMBDA c :
         Return(c.p, Def(c.val))))

_consumeGroupByClauseOptional(p) ==
    IF p._currentToken.value # "GROUPBY" THEN Return(p, Undefined)
    ELSE Then(_consumeToken(p, "KEYWORD", ""), LAMBDA k :
         Then(_consumeToken(k.p, "IDENTIFIER", ""), LAMBDA i :
         Return(i.p, Def(i.val.value))))

\* The limit clause without the default: the offset repeats the limit.
LimitWithoutDefaultOffset(p) ==
    IF p._currentToken.value # "LIMIT" THEN Return(p, Undefined)
    ELSE Then(_consumeToken(p, "KEYWORD", ""), LAMBDA k :
         Then(_consumeToken(k.p, "NUMBER", ""), LAMBDA limit :
         IF limit.p._currentToken.value # "OFFSET"
         THEN Return(limit.p, Def([limit |-> Number(limit.val.value),
                                   offset |-> Number(limit.val.value)]))
         ELSE Then(_consumeToken(limit.p, "KEYWORD", ""), LAMBDA o :
              Then(_consumeToken(o.p, "NUMBER", ""), LAMBDA offset :
              Return(offset.p, Def([limit |-> Number(limit.val.value),
                                    offset |-> Number(offset.val.value)]))))))

_consumeLimitAndOffsetClauseOptional(p) ==
    IF p._currentToken.value # "LIMIT" THEN Return(p, Undefined)
    ELSE Then(_consumeToken(p, "KEYWORD", ""), LAMBDA k :
         Then(_consumeToken(k.p, "NUMBER", ""), LAMBDA limit :
         IF limit.p._currentToken.value # "OFFSET"
         THEN Return(limit.p, Def([limit |-> Number(limit.val.value), offset |-> 0]))
         ELSE Then(_consumeToken(limit.p, "KEYWORD", ""), LAMBDA o :
              Then(_consumeToken(o.p, "NUMBER", ""), LAMBDA offset :
              Return(offset.p, Def([limit |-> Number(limit.val.value),
                                    offset |-> Number(offset.val.value)]))))))

(***************************************************************************)
(* Inputs: the token streams a lexer hands to the parser.                  *)
(***************************************************************************)
Seqs(S, n) == UNION {[1..k -> S] : k \in 0..n}

RECURSIVE Join(_)
Join(parts) == IF parts = <<>> THEN <<>> ELSE Head(parts) \o Join(Tail(parts))

RECURSIVE JoinWith(_, _)
JoinWith(parts, sep) ==
    IF Len(parts) <= 1 THEN Join(parts)
    ELSE Head(parts) \o sep \o JoinWith(Tail(parts), sep)

ColumnTexts ==
    {<<ID("a")>>, <<ID("b"), KW("AS"), ID("c")>>,
     <<AF("COUNT"), LP, RP>>, <<AF("MAX"), LP, ID("a"), RP>>}

ColumnLists == Seqs(ColumnTexts, MaxColumns) \ {<<>>}

PlotTexts ==
    {<<>>,
     <<KW("PLOT"), PF("BAR"), LP, ID("a"), CM, ID("b"), RP>>,
     <<KW("PLOT"), PF("LINE"), LP, ID("a"), CM, ID("b"), RP>>}

ClauseTexts ==
    {<<>>,
     <<KW("WHERE"), ID("a"), CMP(">"), NUM("1")>>,
     <<KW("GROUPBY"), ID("a")>>,
     <<KW("LIMIT"), NUM("10")>>,
     <<KW("WHERE"), ID("a"), CMP("="), STR("x"), KW("GROUPBY"), ID("a"),
       KW("LIMIT"), NUM("10"), KW("OFFSET"), NUM("05")>>}

ExtraTexts == {<<>>, <<RP>>, <<ID("b")>>}

\* SELECT c1 , ... , cn followed directly by the clauses: the queries of the grammar.
ValidQuery(plot, columns, clauses) ==
    plot \o <<KW("SELECT")>> \o JoinWith(columns, <<CM>>) \o clauses

ValidQueries ==
    {ValidQuery(pl, cl, t) : pl \in PlotTexts, cl \in ColumnLists, t \in ClauseTexts}

\* The same with the SELECT keyword left out and with a comma after every column.
QueryInputs ==
    {pl \o kw \o JoinWith(cl, <<CM>>) \o cm \o t \o x :
        pl \in PlotTexts, kw \in {<<KW("SELECT")>>, <<>>}, cl \in ColumnLists,
        cm \in {<<>>, <<CM>>}, t \in ClauseTexts, x \in ExtraTexts}

\* Conditions: parenthesised AND/OR shapes over numbered comparisons.
Leaf(i) ==
    CASE i = 1 -> <<ID("a"), CMP("="), NUM("1")>>
      [] i = 2 -> <<ID("b"), CMP(">"), NUM("05")>>
      [] i = 3 -> <<ID("c"), CMP("!="), STR("OR")>>
      [] i = 4 -> <<ID("d"), CMP("="), NUL>>
      [] OTHER -> <<ID("e"), CMP("<="), NUM("10")>>

RECURSIVE CondShapes(_, _)
RECURSIVE UnitShapes(_, _)
UnitShapes(d, k) ==
    (IF k = 1 THEN {<<"L">>} ELSE {})
    \cup (IF d > 0 THEN {<<"(">> \o c \o <<")">> : c \in CondShapes(d - 1, k)} ELSE {})

CondShapes(d, n) ==
    UNION {IF k = n THEN UnitShapes(d, k)
           ELSE {u \o <<s>> \o c :
                    u \in UnitShapes(d, k), s \in {"AND", "OR"}, c \in CondShapes(d, n - k)}
           : k \in 1..n}

RECURSIVE Expand(_, _)
Expand(shape, i) ==
    IF shape = <<>> THEN <<>>
    ELSE CASE Head(shape) = "L" -> Leaf(i) \o Expand(Tail(shape), i + 1)
           [] Head(shape) = "(" -> <<LP>> \o Expand(Tail(shape), i)
           [] Head(shape) = ")" -> <<RP>> \o Expand(Tail(shape), i)
           [] OTHER -> <<LOP(Head(shape))>> \o Expand(Tail(shape), i)

NestedConditions ==
    {Expand(sh, 1) : sh \in UNION {CondShapes(MaxDepth, n) : n \in 1..MaxLeaves}}

FlatConditions ==
    {Expand(sh, 1) : sh \in UNION {CondShapes(0, n) : n \in 1..MaxLeaves}}

\* Comparisons separated by tokens that only look like AND / OR.
Separators == {LOP("AND"), LOP("OR"), STR("OR"), STR("AND"), KW("OR")}
LooseConditions ==
    {Leaf(1) \o <<s>> \o Leaf(2) : s \in Separators}
    \cup {Leaf(1) \o <<s>> \o Leaf(2) \o <<t>> \o Leaf(3) : s, t \in Separators}

\* One comparison with every operator text and every kind of value token.
OperatorTexts == {">", ">=", "<", "<=", "=", "!=", ">>"}
SampleTokens ==
    {KW("AS"), ID("b"), PF("BAR"), LP, RP, CM, STR("x"), NUM("5"), NUL, CMP("="),
     LOP("AND"), AF("MAX"), EOFToken}
Comparisons == {<<ID("a"), CMP(o), v>> : o \in OperatorTexts, v \in SampleTokens}

ComparisonInputs ==
    Comparisons
    \cup {<<ID("a"), CMP(o), v, x>> :
             o \in {">=", "!="}, v \in {NUM("01"), STR("x"), NUL, ID("b")},
             x \in {RP, LOP("AND")}}
    \cup Seqs({ID("a"), CMP("<"), CMP("="), NUM("1"), STR("x")}, MaxLen)

ConditionTokens == {ID("a"), CMP(">"), CMP("="), NUM("1"), STR("OR"), LOP("AND"),
                    LOP("OR"), LP, RP}
ConditionInputs ==
    NestedConditions \cup LooseConditions \cup Comparisons
    \cup {c \o <<x>> : c \in FlatConditions, x \in {RP, KW("LIMIT"), STR("OR")}}
    \cup Seqs(ConditionTokens, MaxLen)

ColumnInputs ==
    {h \o a \o t :
        h \in {<<ID("a")>>, <<AF("COUNT"), LP, RP>>, <<AF("MAX"), LP, ID("a"), RP>>,
               <<AF("SUM"), LP, ID("b"), RP>>, <<AF("COUNT"), LP, ID("a"), RP>>,
               <<AF("MIN"), LP, RP>>, <<AF("AVG"), ID("a")>>, <<KW("SELECT")>>},
        a \in {<<>>, <<KW("AS"), ID("c")>>, <<KW("AS")>>, <<STR("AS"), ID("c")>>,
               <<KW("AS"), STR("c")>>},
        t \in {<<>>, <<CM>>, <<CM, ID("b")>>}}

PlotArgTexts == {<<ID("a")>>, <<ID("b")>>, <<AF("MAX"), LP, ID("a"), RP>>,
                 <<ID("a"), KW("AS"), ID("c")>>, <<NUM("1")>>}
PlotInputs ==
    {<<KW("PLOT"), f, LP>> \o x \o <<CM>> \o y \o <<RP>> \o t :
        f \in {PF("BAR"), PF("LINE"), PF("SCATTER"), PF("PIE"), ID("BAR")},
        x \in PlotArgTexts, y \in PlotArgTexts, t \in {<<>>, <<KW("SELECT")>>}}
    \cup Seqs({KW("PLOT"), STR("PLOT"), PF("BAR"), LP, ID("a")}, MaxLen)

LimitTokens == {KW("LIMIT"), KW("OFFSET"), NUM("10"), NUM("05"), NUM("0"),
                STR("OFFSET"), STR("LIMIT"), ID("a"), KW("WHERE")}
LimitInputs == Seqs(LimitTokens, MaxLen + 1)

(***************************************************************************)
(* parse(): one action per statement of its body.  pc names the statement  *)
(* about to run; a throw leaves pc at the statement that threw and sets    *)
(* `thrown`; the return sets pc to "returned".                             *)
(***************************************************************************)
Running == thrown = Undefined /\ pc # "returned"

InitParse ==
    /\ build \in Builds
    /\ entry = "parse"
    /\ \E q \in QueryInputs : parser = Parser(Lexer(q))
    /\ pc = "plotClause"
    /\ plotClause = Undefined
    /\ selectColumns = Undefined
    /\ whereCondition = Undefined
    /\ groupKey = Undefined
    /\ limitAndOffset = Undefined
    /\ result = Undefined
    /\ thrown = Undefined

ParsePlotClause ==
    /\ entry = "parse" /\ Running /\ pc = "plotClause"
    /\ LET r == _consumePlotClauseOptional(build, parser)
       IN  /\ parser' = r.p
           /\ thrown' = r.err
           /\ plotClause' = r.val
           /\ pc' = IF r.ok THEN "selectColumns" ELSE pc
    /\ UNCHANGED <<build, entry, selectColumns, whereCondition, groupKey,
                   limitAndOffset, result>>

ParseSelectClause ==
    /\ entry = "parse" /\ Running /\ pc = "selectColumns"
    /\ LET r == _consumeSelectClause(build, parser)
       IN  /\ parser' = r.p
           /\ thrown' = r.err
           /\ selectColumns' = r.val
           /\ pc' = IF r.ok THEN "whereCondition" ELSE pc
    /\ UNCHANGED <<build, entry, plotClause, whereCondition, groupKey,
                   limitAndOffset, result>>

ParseWhereClause ==
    /\ entry = "parse" /\ Running /\ pc = "whereCondition"
    /\ LET r == _consumeWhereClauseOptional(parser)
       IN  /\ parser' = r.p
           /\ thrown' = r.err
           /\ whereCondition' = r.val
           /\ pc' = IF r.ok THEN "groupKey" ELSE pc
    /\ UNCHANGED <<build, entry, plotClause, selectColumns, groupKey,
                   limitAndOffset, result>>

ParseGroupByClause ==
    /\ entry = "parse" /\ Running /\ pc = "groupKey"
    /\ LET r == _consumeGroupByClauseOptional(parser)
       IN  /\ parser' = r.p
           /\ thrown' = r.err
           /\ groupKey' = r.val
           /\ pc' = IF r.ok THEN "limitAndOffset" ELSE pc
    /\ UNCHANGED <<build, entry, plotClause, selectColumns, whereCondition,
                   limitAndOffset, result>>

ParseLimitAndOffsetClause ==
    /\ entry = "parse" /\ Running /\ pc = "limitAndOffset"
    /\ LET r == _consumeLimitAndOffsetClauseOptional(parser)
       IN  /\ parser' = r.p
           /\ thrown' = r.err
           /\ limitAndOffset' = r.val
           /\ pc' = IF r.ok THEN "EOF" ELSE pc
    /\ UNCHANGED <<build, entry, plotClause, selectColumns, whereCondition,
                   groupKey, result>>

ParseEOF ==
    /\ entry = "parse" /\ Running /\ pc = "EOF"
    /\ LET r == _consumeToken(parser, "EOF", "")
       IN  /\ parser' = r.p
           /\ thrown' = r.err
           /\ result' = IF r.ok
                        THEN Def([plotClause |-> plotClause,
                                  selectColumns |-> selectColumns,
                                  whereCondition |-> whereCondition,
                                  groupKey |-> groupKey,
                                  limitAndOffset |-> limitAndOffset])
                        ELSE Undefined
           /\ pc' = IF r.ok THEN "returned" ELSE pc
    /\ UNCHANGED <<build, entry, plotClause, selectColumns, whereCondition,
                   groupKey, limitAndOffset>>

Next ==
    \/ ParsePlotClause
    \/ ParseSelectClause
    \/ ParseWhereClause
    \/ ParseGroupByClause
    \/ ParseLimitAndOffsetClause
    \/ ParseEOF

Spec == InitParse /\ [][Next]_vars

(***************************************************************************)
(* The methods called on their own, each on a freshly constructed parser.  *)
(***************************************************************************)
Entries == {"_consumeColumn", "_consumePlotClauseOptional", "_consumeCondition",
            "_consumeComparison", "_consumeLimitAndOffsetClauseOptional"}

EntryInputs(e) ==
    CASE e = "_consumeColumn" -> ColumnInputs
      [] e = "_consumePlotClauseOptional" -> PlotInputs
      [] e = "_consumeCondition" -> ConditionInputs
      [] e = "_consumeComparison" -> ComparisonInputs
      [] OTHER -> LimitInputs

\* _consumeCondition and the limit clause are the same text in both sources.
EntryBuilds(e) ==
    IF e \in {"_consumeColumn", "_consumePlotClauseOptional"} THEN Builds ELSE {"src"}

InitUnit ==
    /\ entry \in Entries
    /\ build \in EntryBuilds(entry)
    /\ \E q \in EntryInputs(entry) : parser = Parser(Lexer(q))
    /\ pc = "call"
    /\ plotClause = Undefined
    /\ selectColumns = Undefined
    /\ whereCondition = Undefined
    /\ groupKey = Undefined
    /\ limitAndOffset = Undefined
    /\ result = Undefined
    /\ thrown = Undefined

Complete(r) ==
    /\ parser' = r.p
    /\ thrown' = r.err
    /\ result' = r.val
    /\ pc' = IF r.ok THEN "returned" ELSE pc
    /\ UNCHANGED <<build, entry, plotClause, selectColumns, whereCondition,
                   groupKey, limitAndOffset>>

CallConsumeColumn ==
    /\ entry = "_consumeColumn" /\ Running /\ pc = "call"
    /\ Complete(_consumeColumn(build, parser))

CallConsumePlotClauseOptional ==
    /\ entry = "_consumePlotClauseOptional" /\ Running /\ pc = "call"
    /\ Complete(_consumePlotClauseOptional(build, parser))

CallConsumeCondition ==
    /\ entry = "_consumeCondition" /\ Running /\ pc = "call"
    /\ Complete(_consumeCondition(parser))

CallConsumeComparison ==
    /\ entry = "_consumeComparison" /\ Running /\ pc = "call"
    /\ Complete(_consumeComparison(parser))

CallConsumeLimitAndOffsetClauseOptional ==
    /\ entry = "_consumeLimitAndOffsetClauseOptional" /\ Running /\ pc = "call"
    /\ Complete(_consumeLimitAndOffsetClauseOptional(parser))

NextUnit ==
    \/ CallConsumeColumn
    \/ CallConsumePlotClauseOptional
    \/ CallConsumeCondition
    \/ CallConsumeComparison
    \/ CallConsumeLimitAndOffsetClauseOptional

SpecUnit == InitUnit /\ [][NextUnit]_vars

(***************************************************************************)
(* Properties.                                                             *)
(***************************************************************************)
Input == parser._lexer.input
Done == pc = "returned" \/ thrown # Undefined
PassedTokens == [i \in 1..Len(parser.passed) |-> parser.passed[i].token]

\* C1: for every query SELECT c1 , ... , cn (a comma after every column but the
\* last) followed directly by a WHERE / GROUPBY / LIMIT clause or by end-of-input,
\* parse() returns an AST whose selectColumns holds exactly n descriptors, one per
\* ci in source order.  Stated of the compiled module, which consumes SELECT.
C1_SelectColumnsOnePerColumn ==
    (entry = "parse" /\ build = "lib" /\ Done) =>
        \A cl \in ColumnLists, t \in ClauseTexts :
            Input = ValidQuery(<<>>, cl, t) =>
                /\ pc = "returned"
                /\ Len(result[1].selectColumns) = Len(cl)
                /\ \A i \in 1..Len(cl) :
                      result[1].selectColumns[i]
                          = _consumeColumn(build, Parser(Lexer(cl[i]))).val

\* C2: for comparison units separated by AND / OR without parentheses,
\* _consumeCondition returns the comparisons grouped into maximal AND-separated
\* runs, each run of two or more under one `and` node in source order, and the
\* runs in source order under one `or` node when there are two or more runs.
UnitCount(q) == (Len(q) + 1) \div 4
UnitAt(q, i) == _consumeComparison(Parser(Lexer(SubSeq(q, 4 * i - 3, 4 * i - 1)))).val
SeparatorAt(q, i) == q[4 * i].value

\* The runs of q's units from unit i on: a sequence of sequences of units.
RECURSIVE AndRuns(_, _)
AndRuns(q, i) ==
    IF i = UnitCount(q) THEN << <<UnitAt(q, i)>> >>
    ELSE IF SeparatorAt(q, i) = "AND"
         THEN << <<UnitAt(q, i)>> \o Head(AndRuns(q, i + 1)) >> \o Tail(AndRuns(q, i + 1))
         ELSE << <<UnitAt(q, i)>> >> \o AndRuns(q, i + 1)

AndNodeOf(run) == IF Len(run) >= 2 THEN [and |-> run] ELSE run[1]
GroupedByPrecedence(q) ==
    LET runs == AndRuns(q, 1)
        groups == [i \in 1..Len(runs) |-> AndNodeOf(runs[i])]
    IN  IF Len(groups) >= 2 THEN [or |-> groups] ELSE groups[1]

C2_AndBindsTighterThanOr ==
    (entry = "_consumeCondition" /\ Done /\ Input \in FlatConditions) =>
        /\ pc = "returned"
        /\ result = GroupedByPrecedence(Input)

\* a = 1 OR b > 05 AND c != 'OR' has been parsed into or(eq, and(gt, neq)).
C2_Witness ==
    /\ entry = "_consumeCondition" /\ pc = "returned"
    /\ Input = Leaf(1) \o <<LOP("OR")>> \o Leaf(2) \o <<LOP("AND")>> \o Leaf(3)
    /\ result = [or |-> << [eq |-> KeyAndValue("a", NumberValue(1))],
                           [and |-> << [gt |-> KeyAndValue("b", NumberValue(5))],
                                       [neq |-> KeyAndValue("c", StringValue("OR"))] >>] >>]

\* C3: in every predicate tree returned by _consumeCondition, at every depth, each
\* `and` node and each `or` node has at least two children; a parenthesized
\* sub-expression is returned as the tree of what it encloses, so one with a
\* single operand is that operand itself.
RECURSIVE NoSingletonNode(_)
NoSingletonNode(t) ==
    IF "and" \in DOMAIN t
    THEN Len(t.and) >= 2 /\ \A i \in 1..Len(t.and) : NoSingletonNode(t.and[i])
    ELSE IF "or" \in DOMAIN t
    THEN Len(t.or) >= 2 /\ \A i \in 1..Len(t.or) : NoSingletonNode(t.or[i])
    ELSE TRUE

Parenthesized(q) ==
    /\ Len(q) >= 3
    /\ q[1] = LP
    /\ q[Len(q)] = RP
    /\ SubSeq(q, 2, Len(q) - 1) \in NestedConditions

C3_NoSingletonAndOr ==
    (entry = "_consumeCondition" /\ pc = "returned") =>
        /\ NoSingletonNode(result)
        /\ Parenthesized(Input) =>
              result = _consumeCondition(Parser(Lexer(SubSeq(Input, 2, Len(Input) - 1)))).val

\* ((a = 1)) has been parsed into the bare comparison.
C3_Witness ==
    /\ entry = "_consumeCondition" /\ pc = "returned"
    /\ Input = <<LP, LP>> \o Leaf(1) \o <<RP, RP>>
    /\ result = [eq |-> KeyAndValue("a", NumberValue(1))]

\* The i-th token the lexer yields for the input: end-of-input past its end.
TokenAt(i) == IF i <= Len(Input) THEN Input[i] ELSE EOFToken

\* C4: every column descriptor produced by _consumeColumn has a defined
\* `identifier`: the alias when the column is followed by AS <ident>, otherwise
\* FUNC(column) when an aggregation function is present, otherwise the bare column
\* name; and its `column` is absent exactly when the aggregation function is COUNT.
ColumnHasAlias ==
    Len(PassedTokens) >= 2 /\ PassedTokens[Len(PassedTokens) - 1] = KW("AS")

ExpectedIdentifier ==
    IF ColumnHasAlias THEN PassedTokens[Len(PassedTokens)].value
    ELSE IF PassedTokens[1].type = "AGGREGATION_FUNCTION"
         THEN PassedTokens[1].value \o "("
              \o (IF PassedTokens[3].type = "IDENTIFIER" THEN PassedTokens[3].value ELSE "")
              \o ")"
         ELSE PassedTokens[1].value

C4_IdentifierAlwaysDefined ==
    (entry = "_consumeColumn" /\ pc = "returned") =>
        /\ "identifier" \in DOMAIN result
        /\ result.identifier = Def(ExpectedIdentifier)
        /\ (result.column = Undefined) <=> (result.aggregationFunction = Def("COUNT"))

\* C5: PLOT BAR(c, v) yields exactly {plotFunction: BAR, categoriesIdentifier: c,
\* valuesIdentifier: v}; PLOT LINE(x, y) and PLOT SCATTER(x, y) yield exactly
\* {plotFunction, xIdentifier: x, yIdentifier: y}; both arguments are plain
\* IDENTIFIER tokens whose text is stored; any other plot-function value, or any
\* other argument, throws and yields no plot clause.
PlotCallTokens ==
    /\ TokenAt(1) = KW("PLOT")
    /\ TokenAt(2).type = "PLOT_FUNCTION"
    /\ TokenAt(3) = LP

PlotArgumentsPlain ==
    /\ TokenAt(4).type = "IDENTIFIER"
    /\ TokenAt(5) = CM
    /\ TokenAt(6).type = "IDENTIFIER"
    /\ TokenAt(7) = RP

C5_PlotArgumentsKeyedByFunction ==
    (entry = "_consumePlotClauseOptional" /\ Done /\ PlotCallTokens) =>
        IF PlotArgumentsPlain /\ TokenAt(2).value = "BAR"
        THEN /\ pc = "returned"
             /\ result = Def([plotFunction |-> "BAR",
                              categoriesIdentifier |-> TokenAt(4).value,
                              valuesIdentifier |-> TokenAt(6).value])
        ELSE IF PlotArgumentsPlain /\ TokenAt(2).value \in {"LINE", "SCATTER"}
        THEN /\ pc = "returned"
             /\ result = Def([plotFunction |-> TokenAt(2).value,
                              xIdentifier |-> TokenAt(4).value,
                              yIdentifier |-> TokenAt(6).value])
        ELSE thrown # Undefined /\ result = Undefined

ComparisonAccepted ==
    \/ TokenAt(2).value \in {">", ">=", "<", "<="} /\ TokenAt(3).type = "NUMBER"
    \/ TokenAt(2).value \in {"=", "!="} /\ TokenAt(3).type \in {"STRING", "NUMBER", "NULL"}

ExpectedComparisonValue ==
    CASE TokenAt(3).type = "STRING" -> [type |-> "string", string |-> TokenAt(3).value, number |-> 0]
      [] TokenAt(3).type = "NUMBER" -> [type |-> "number", string |-> "", number |-> Number(TokenAt(3).value)]
      [] OTHER -> [type |-> "null", string |-> "", number |-> 0]

C7_ComparisonValueKinds ==
    (entry = "_consumeComparison" /\ Done
        /\ TokenAt(1).type = "IDENTIFIER" /\ TokenAt(2).type = "COMPARISON_OPERATOR") =>
        IF ComparisonAccepted
        THEN /\ pc = "returned"
             /\ \A f \in DOMAIN result :
                   result[f] = [key |-> TokenAt(1).value, value |-> ExpectedComparisonValue]
        ELSE thrown # Undefined /\ result = Undefined

\* a != 'x' has been accepted with a string value.
C7_Witness ==
    /\ entry = "_consumeComparison" /\ pc = "returned"
    /\ Input = <<ID("a"), CMP("!="), STR("x"), RP>>
    /\ result = [neq |-> [key |-> "a", value |-> StringValue("x")]]

\* C8: any valid query followed by one or more extraneous tokens makes parse()
\* raise the error at its final end-of-input check, and no AST is returned.
\* Stated of the compiled module, which consumes SELECT.
C8_TrailingTokensFailAtEOFCheck ==
    (entry = "parse" /\ build = "lib" /\ Done) =>
        \A q \in ValidQueries, x \in ExtraTexts \ {<<>>} :
            Input = q \o x => (thrown # Undefined /\ pc = "EOF" /\ result = Undefined)

C10_KindCheckedBeforeAdvance ==
    \A i \in 1..Len(parser.passed) :
        /\ parser.passed[i].site = "_consumeCondition" =>
              parser.passed[i].token = LOP("OR")
        /\ parser.passed[i].site = "_consumeComparisonValue" =>
              parser.passed[i].token.type \in {"STRING", "NUMBER", "NULL"}

\* The tokens passed by _consumeSelectClause and by the steps of parse() after
\* it: what the parser has passed beyond the plot clause, without the SELECT
\* keyword the compiled module consumes first.
PlotPassed == Len(_consumePlotClauseOptional(build, Parser(Lexer(Input))).p.passed)
SelectTokens ==
    LET s == SubSeq(PassedTokens, PlotPassed + 1, Len(PassedTokens))
    IN  IF build = "lib" THEN Tail(s) ELSE s
CommaPositions(s) == {i \in 1..Len(s) : s[i] = CM}
AfterSelect ==
    /\ entry = "parse"
    /\ pc \in {"whereCondition", "groupKey", "limitAndOffset", "EOF", "returned"}

\* C11: whenever _consumeSelectClause has returned normally, it has passed one
\* COMMA per pushed column, the last passed token being the COMMA after the last
\* column; every COMMA but the last was followed by a non-IDENTIFIER token; and
\* the lookahead is an IDENTIFIER at the return and at the start of each step of
\* parse() that follows (WHERE, GROUPBY, LIMIT, the EOF check), none of which
\* passes a token.
C11_SelectReturnsOnIdentifierAfterComma ==
    AfterSelect =>
        \A s \in {SelectTokens} : \A commas \in {CommaPositions(s)} :
            /\ Cardinality(commas) = Len(selectColumns)
            /\ s # <<>>
            /\ s[Len(s)] = CM
            /\ \A i \in commas : i < Len(s) => s[i + 1].type # "IDENTIFIER"
            /\ parser._currentToken.type = "IDENTIFIER"

\* SELECT a , COUNT ( ) , b: two columns pushed, the loop has iterated once more
\* after the first comma, and parse() has reached the EOF check looking at b.
C11_Witness ==
    /\ AfterSelect
    /\ build = "lib"
    /\ pc = "EOF"
    /\ thrown = Undefined
    /\ Input = <<KW("SELECT"), ID("a"), CM, AF("COUNT"), LP, RP, CM, ID("b")>>
    /\ Len(selectColumns) = 2
    /\ parser._currentToken = ID("b")

====
